---- MODULE Spec2Model ----
(***************************************************************************)
(* Model of the Sokoban board of exercise_4_3/sokoban.py: the level parser *)
(* (SokobanModel.__init__), the move operation (SokobanModel.move) and the *)
(* queries (is_empty, symbol, is_level_complete, width, height).           *)
(*                                                                         *)
(* A character is a one-character string, a row is a sequence of           *)
(* characters, a level is a sequence of rows.  A coordinate is <<x, y>>.   *)
(*                                                                         *)
(* level_data .. size are the level text and the fields of the board;      *)
(* response is what the latest move call returned or raised, last the      *)
(* arguments and the board it started from, calls the number of move       *)
(* calls.  twin is a second board with the same walls, boxes and player    *)
(* but other goals, given the same calls.  answer is the latest query and  *)
(* its value.  running, pending and success belong to the game loop: the   *)
(* loop flag, the events of the current batch not yet handled, and         *)
(* whether the success message has been shown.                             *)
(***************************************************************************)
EXTENDS Integers, Sequences, FiniteSets, TLC

VARIABLES level_data, walls, boxes, goals, player, size, response, last, calls,
          twin, answer, running, pending, success

vars == <<level_data, walls, boxes, goals, player, size, response, last, calls,
          twin, answer, running, pending, success>>

(***************************************************************************)
(* Bounds of the model.                                                    *)
(***************************************************************************)
\* longest generated one-row level / tallest generated one-column level
MaxLen == 3
\* number of move calls explored on one board
MaxMoves == 3

(***************************************************************************)
(* class Symbol, class MoveResponse                                        *)
(***************************************************************************)
BOX == "$"
BOX_ON_GOAL == "*"
PLAYER == "@"
PLAYER_ON_GOAL == "+"
GOAL == "."
WALL == "#"
FLOOR == "-"

Symbol == {BOX, BOX_ON_GOAL, PLAYER, PLAYER_ON_GOAL, GOAL, WALL, FLOOR}

INVALID_WALL == "can't push walls"
INVALID_BOX == "can't push this box"
VALID == "valid"

MoveResponse == {INVALID_WALL, INVALID_BOX, VALID}

\* reading self.player when __init__ never assigned it
AttributeError == "AttributeError"

\* the value of `player' while the attribute does not exist
NoPlayer == <<>>

(***************************************************************************)
(* str.strip(): leading and trailing whitespace is removed.                *)
(***************************************************************************)
Whitespace == {" ", "\n", "\r", "\t"}

RECURSIVE lstrip(_)
lstrip(row) ==
    IF row # <<>> /\ Head(row) \in Whitespace THEN lstrip(Tail(row)) ELSE row

RECURSIVE rstrip(_)
rstrip(row) ==
    IF row # <<>> /\ row[Len(row)] \in Whitespace
    THEN rstrip(SubSeq(row, 1, Len(row) - 1))
    ELSE row

strip_leading_only(row) == lstrip(row)

strip(row) == rstrip(lstrip(row))

(***************************************************************************)
(* SokobanModel.__init__                                                   *)
(***************************************************************************)
\* the object before the scan: three empty sets, no player attribute
EmptyBoard == [walls |-> {}, boxes |-> {}, goals |-> {}, player |-> NoPlayer]

Classify_star_is_box_only(m, symbol, pos) ==
    CASE symbol = BOX -> [m EXCEPT !.boxes = @ \cup {pos}]
      [] symbol = BOX_ON_GOAL -> [m EXCEPT !.boxes = @ \cup {pos}]
      [] symbol = PLAYER -> [m EXCEPT !.player = pos]
      [] symbol = PLAYER_ON_GOAL ->
            [m EXCEPT !.player = pos, !.goals = @ \cup {pos}]
      [] symbol = GOAL -> [m EXCEPT !.goals = @ \cup {pos}]
      [] symbol = WALL -> [m EXCEPT !.walls = @ \cup {pos}]
      [] OTHER -> m

\* the match statement: one character at coordinate pos
Classify(m, symbol, pos) ==
    CASE symbol = BOX -> [m EXCEPT !.boxes = @ \cup {pos}]
      [] symbol = BOX_ON_GOAL ->
            [m EXCEPT !.boxes = @ \cup {pos}, !.goals = @ \cup {pos}]
      [] symbol = PLAYER -> [m EXCEPT !.player = pos]
      [] symbol = PLAYER_ON_GOAL ->
            [m EXCEPT !.player = pos, !.goals = @ \cup {pos}]
      [] symbol = GOAL -> [m EXCEPT !.goals = @ \cup {pos}]
      [] symbol = WALL -> [m EXCEPT !.walls = @ \cup {pos}]
      [] OTHER -> m

\* for x, symbol in enumerate(row_str), from the i-th character on
RECURSIVE ScanRow(_, _, _, _)
ScanRow(m, row_str, y, i) ==
    IF i > Len(row_str) THEN m
    ELSE ScanRow(Classify(m, row_str[i], <<i - 1, y>>), row_str, y, i + 1)

\* for y, row in enumerate(level_data), from the j-th row on
RECURSIVE ScanLevel(_, _, _)
ScanLevel(m, data, j) ==
    IF j > Len(data) THEN m
    ELSE ScanLevel(ScanRow(m, strip(data[j]), j - 1, 1), data, j + 1)

ParseSize_one_by_one(data) ==
    IF Len(data) > 0 THEN <<Len(strip(data[1])), Len(data)>> ELSE <<1, 1>>

\* self.size
ParseSize(data) ==
    IF Len(data) > 0 THEN <<Len(strip(data[1])), Len(data)>> ELSE <<0, 0>>

ParseLevel(data) == ScanLevel(EmptyBoard, data, 1)

(***************************************************************************)
(* SokobanModel.is_empty                                                   *)
(***************************************************************************)
is_empty_ignoring_boxes(w, b, x, y) ==
    LET pos == <<x, y>> IN
    IF pos \in w THEN FALSE ELSE TRUE

is_empty_ignoring_walls(w, b, x, y) ==
    LET pos == <<x, y>> IN
    IF pos \in b THEN FALSE ELSE TRUE

is_empty(w, b, x, y) ==
    LET pos == <<x, y>> IN
    IF pos \in w THEN FALSE
    ELSE IF pos \in b THEN FALSE
    ELSE TRUE

(***************************************************************************)
(* SokobanModel.move: the value returned and the new boxes and player.     *)
(***************************************************************************)
\* self.boxes.remove((nx, ny)); self.boxes.add((nnx, nny))
push_keeps_old_box(b, from, to) == b \cup {to}

push(b, from, to) == (b \ {from}) \cup {to}

move_walks_when_blocked(w, b, p, dx, dy) ==
    LET x == p[1]
        y == p[2]
        nx == x + dx
        ny == y + dy
        nnx == nx + dx
        nny == ny + dy
    IN  IF is_empty(w, b, nx, ny)
        THEN [result |-> VALID, boxes |-> b, player |-> <<nx, ny>>]
        ELSE IF <<nx, ny>> \in b
        THEN IF is_empty(w, b, nnx, nny)
             THEN [result |-> VALID, boxes |-> push(b, <<nx, ny>>, <<nnx, nny>>),
                   player |-> <<nx, ny>>]
             ELSE [result |-> INVALID_BOX, boxes |-> b, player |-> <<nx, ny>>]
        ELSE [result |-> INVALID_WALL, boxes |-> b, player |-> p]

move_stays_when_empty(w, b, p, dx, dy) ==
    LET x == p[1]
        y == p[2]
        nx == x + dx
        ny == y + dy
        nnx == nx + dx
        nny == ny + dy
    IN  IF is_empty(w, b, nx, ny)
        THEN [result |-> VALID, boxes |-> b, player |-> p]
        ELSE IF <<nx, ny>> \in b
        THEN IF is_empty(w, b, nnx, nny)
             THEN [result |-> VALID, boxes |-> push(b, <<nx, ny>>, <<nnx, nny>>),
                   player |-> <<nx, ny>>]
             ELSE [result |-> INVALID_BOX, boxes |-> b, player |-> p]
        ELSE [result |-> INVALID_WALL, boxes |-> b, player |-> p]

move_push_leaves_player(w, b, p, dx, dy) ==
    LET x == p[1]
        y == p[2]
        nx == x + dx
        ny == y + dy
        nnx == nx + dx
        nny == ny + dy
    IN  IF is_empty(w, b, nx, ny)
        THEN [result |-> VALID, boxes |-> b, player |-> <<nx, ny>>]
        ELSE IF <<nx, ny>> \in b
        THEN IF is_empty(w, b, nnx, nny)
             THEN [result |-> VALID, boxes |-> push(b, <<nx, ny>>, <<nnx, nny>>),
                   player |-> p]
             ELSE [result |-> INVALID_BOX, boxes |-> b, player |-> p]
        ELSE [result |-> INVALID_WALL, boxes |-> b, player |-> p]

move_blocked_box_is_wall(w, b, p, dx, dy) ==
    LET x == p[1]
        y == p[2]
        nx == x + dx
        ny == y + dy
        nnx == nx + dx
        nny == ny + dy
    IN  IF is_empty(w, b, nx, ny)
        THEN [result |-> VALID, boxes |-> b, player |-> <<nx, ny>>]
        ELSE IF <<nx, ny>> \in b /\ is_empty(w, b, nnx, nny)
        THEN [result |-> VALID, boxes |-> push(b, <<nx, ny>>, <<nnx, nny>>),
              player |-> <<nx, ny>>]
        ELSE [result |-> INVALID_WALL, boxes |-> b, player |-> p]

move_box_beyond_wall_only(w, b, p, dx, dy) ==
    LET x == p[1]
        y == p[2]
        nx == x + dx
        ny == y + dy
        nnx == nx + dx
        nny == ny + dy
    IN  IF is_empty(w, b, nx, ny)
        THEN [result |-> VALID, boxes |-> b, player |-> <<nx, ny>>]
        ELSE IF <<nx, ny>> \in b
        THEN IF <<nnx, nny>> \notin w
             THEN [result |-> VALID, boxes |-> push(b, <<nx, ny>>, <<nnx, nny>>),
                   player |-> <<nx, ny>>]
             ELSE [result |-> INVALID_BOX, boxes |-> b, player |-> p]
        ELSE [result |-> INVALID_WALL, boxes |-> b, player |-> p]

move(w, b, p, dx, dy) ==
    LET x == p[1]
        y == p[2]
        nx == x + dx
        ny == y + dy
        nnx == nx + dx
        nny == ny + dy
    IN  IF is_empty(w, b, nx, ny)
        THEN [result |-> VALID, boxes |-> b, player |-> <<nx, ny>>]
        ELSE IF <<nx, ny>> \in b
        THEN IF is_empty(w, b, nnx, nny)
             THEN [result |-> VALID, boxes |-> push(b, <<nx, ny>>, <<nnx, nny>>),
                   player |-> <<nx, ny>>]
             ELSE [result |-> INVALID_BOX, boxes |-> b, player |-> p]
        ELSE [result |-> INVALID_WALL, boxes |-> b, player |-> p]

(***************************************************************************)
(* SokobanModel.width, height, symbol, is_level_complete                   *)
(***************************************************************************)
width(s) == s[1]

height(s) == s[2]

symbol_box_first(w, b, g, p, x, y) ==
    LET pos == <<x, y>> IN
    IF pos \in b THEN BOX
    ELSE IF pos \in g
    THEN IF pos = p THEN PLAYER_ON_GOAL ELSE GOAL
    ELSE IF pos = p THEN PLAYER
    ELSE IF pos \in w THEN WALL
    ELSE FLOOR

\* `pos == self.player' raises when the board has no player attribute
symbol(w, b, g, p, x, y) ==
    LET pos == <<x, y>> IN
    IF pos \in g
    THEN IF pos \in b THEN BOX_ON_GOAL
         ELSE IF p = NoPlayer THEN AttributeError
         ELSE IF pos = p THEN PLAYER_ON_GOAL
         ELSE GOAL
    ELSE IF pos \in b THEN BOX
    ELSE IF p = NoPlayer THEN AttributeError
    ELSE IF pos = p THEN PLAYER
    ELSE IF pos \in w THEN WALL
    ELSE FLOOR

is_level_complete_subset_only(b, g) ==
    IF \E box_pos \in b : box_pos \notin g THEN FALSE
    ELSE \A box_pos \in b : box_pos \in g

is_level_complete_goals_covered(b, g) ==
    IF \E box_pos \in b : box_pos \notin g THEN FALSE
    ELSE Cardinality(b) > 0 /\ \A goal_pos \in g : goal_pos \in b

is_level_complete(b, g) ==
    IF \E box_pos \in b : box_pos \notin g THEN FALSE
    ELSE Cardinality(b) > 0 /\ \A box_pos \in b : box_pos \in g

(***************************************************************************)
(* Levels.  The first six are the levels of the unit tests                 *)
(* (exercise_4_2/test_sokoban_model.py); the generated ones are every      *)
(* one-row level and every one-column level of at most MaxLen characters.  *)
(***************************************************************************)
level_completion_empty ==
    <<<<"#", "#", "#">>,
      <<"#", "@", "#">>,
      <<"#", "#", "#">>>>

level_with_visible_box ==
    <<<<"#", "#", "#", "#">>,
      <<"#", "@", "$", "#">>,
      <<"#", ".", " ", "#">>,
      <<"#", "#", "#", "#">>>>

level_with_uncovered_goal ==
    <<<<"#", "#", "#", "#", "#">>,
      <<"#", "@", "*", ".", "#">>,
      <<"#", "#", "#", "#", "#">>>>

all_boxes_on_goals ==
    <<<<"#", "#", "#", "#", "#">>,
      <<"#", "@", "*", "*", "#">>,
      <<"#", "#", "#", "#", "#">>>>

level_completion_after_move ==
    <<<<"#", "#", "#", "#">>,
      <<"#", "@", "$", "#">>,
      <<"#", ".", "#", "#">>,
      <<"#", "#", "#", "#">>>>

level_with_multiple_goals_and_boxes ==
    <<<<"#", "#", "#", "#", "#", "#", "#">>,
      <<"#", "@", "$", ".", ".", ".", "#">>,
      <<"#", "$", "$", " ", ".", ".", "#">>,
      <<"#", "#", "#", "#", "#", "#", "#">>>>

TestLevels ==
    {level_completion_empty, level_with_visible_box, level_with_uncovered_goal,
     all_boxes_on_goals, level_completion_after_move,
     level_with_multiple_goals_and_boxes}

\* two enclosed levels with room to push: two boxes beside two goals, and
\* one box in front of a goal
level_two_boxes ==
    <<<<"#", "#", "#", "#", "#", "#">>,
      <<"#", "-", "$", "-", ".", "#">>,
      <<"#", "-", "$", "-", ".", "#">>,
      <<"#", "-", "@", "-", "-", "#">>,
      <<"#", "#", "#", "#", "#", "#">>>>

level_one_push ==
    <<<<"#", "#", "#", "#", "#">>,
      <<"#", "@", "$", ".", "#">>,
      <<"#", "#", "#", "#", "#">>>>

ScenarioLevels == {level_two_boxes, level_one_push}

\* the characters of generated levels: the seven symbols and a blank
Alphabet == Symbol \cup {" "}

GeneratedRows == UNION {[1..n -> Alphabet] : n \in 0..MaxLen}

RowLevels == {<<r>> : r \in GeneratedRows}

ColumnLevels == {[j \in 1..Len(c) |-> <<c[j]>>] : c \in GeneratedRows}

Levels == TestLevels \cup ScenarioLevels \cup RowLevels \cup ColumnLevels

(***************************************************************************)
(* The state machine: a board built from a level, then move calls by the   *)
(* four keys of the game loop.                                             *)
(***************************************************************************)
UnitDirections == {<<0, -1>>, <<-1, 0>>, <<0, 1>>, <<1, 0>>}

NoCall == "none"

\* no query made yet
NoAnswer == [query |-> "none", args |-> <<>>, value |-> "none"]

\* the coordinates the parser scans in a level
ScannedCoordinates(data) ==
    UNION {{<<i - 1, j - 1>> : i \in 1..Len(strip(data[j]))} :
              j \in 1..Len(data)}

\* the second board of a level: every scanned coordinate that is not a goal
\* of the level is a goal of the twin, and the other way round
TwinBoard(data) ==
    LET m == ParseLevel(data) IN
    [goals |-> ScannedCoordinates(data) \ m.goals, boxes |-> m.boxes,
     player |-> m.player, response |-> NoCall]

Init ==
    /\ level_data \in Levels
    /\ LET m == ParseLevel(level_data) IN
        /\ walls = m.walls
        /\ boxes = m.boxes
        /\ goals = m.goals
        /\ player = m.player
        /\ last = [dx |-> 0, dy |-> 0, boxes |-> m.boxes, player |-> m.player,
                   again |-> FALSE]
    /\ size = ParseSize(level_data)
    /\ response = NoCall
    /\ calls = 0
    /\ twin = TwinBoard(level_data)
    /\ answer = NoAnswer
    /\ running = TRUE
    /\ pending = <<>>
    /\ success = FALSE

\* the same move call on the twin board
TwinMove(dx, dy) ==
    twin' = IF twin.player = NoPlayer
            THEN [twin EXCEPT !.response = AttributeError]
            ELSE LET t == move(walls, twin.boxes, twin.player, dx, dy) IN
                 [twin EXCEPT !.boxes = t.boxes, !.player = t.player,
                              !.response = t.result]

Move_defaults_player(dx, dy) ==
    /\ calls < MaxMoves
    /\ calls' = calls + 1
    /\ last' = [dx |-> dx, dy |-> dy, boxes |-> boxes, player |-> player,
                again |-> /\ response \in {INVALID_WALL, INVALID_BOX}
                          /\ last.dx = dx
                          /\ last.dy = dy]
    /\ LET r == move(walls, boxes,
                     IF player = NoPlayer THEN <<0, 0>> ELSE player, dx, dy) IN
        /\ response' = r.result
        /\ boxes' = r.boxes
        /\ player' = r.player
    /\ TwinMove(dx, dy)
    /\ UNCHANGED <<level_data, walls, goals, size>>

Move_consumes_goal(dx, dy) ==
    /\ calls < MaxMoves
    /\ calls' = calls + 1
    /\ last' = [dx |-> dx, dy |-> dy, boxes |-> boxes, player |-> player,
                again |-> /\ response \in {INVALID_WALL, INVALID_BOX}
                          /\ last.dx = dx
                          /\ last.dy = dy]
    /\ IF player = NoPlayer
       THEN /\ response' = AttributeError
            /\ UNCHANGED <<boxes, player, goals>>
       ELSE LET r == move(walls, boxes, player, dx, dy) IN
            /\ response' = r.result
            /\ boxes' = r.boxes
            /\ player' = r.player
            /\ goals' = goals \ (r.boxes \ boxes)
    /\ TwinMove(dx, dy)
    /\ UNCHANGED <<level_data, walls, size>>

\* a wrong move call: a box on a goal of the board is passable, it neither
\* blocks the player nor is pushed
Move_box_on_goal_passable(dx, dy) ==
    /\ calls < MaxMoves
    /\ calls' = calls + 1
    /\ last' = [dx |-> dx, dy |-> dy, boxes |-> boxes, player |-> player,
                again |-> /\ response \in {INVALID_WALL, INVALID_BOX}
                          /\ last.dx = dx
                          /\ last.dy = dy]
    /\ IF player = NoPlayer
       THEN /\ response' = AttributeError
            /\ UNCHANGED <<boxes, player>>
       ELSE LET r == move(walls, boxes \ goals, player, dx, dy) IN
            /\ response' = r.result
            /\ boxes' = r.boxes \cup (boxes \cap goals)
            /\ player' = r.player
    /\ twin' = IF twin.player = NoPlayer
               THEN [twin EXCEPT !.response = AttributeError]
               ELSE LET t == move(walls, twin.boxes \ twin.goals, twin.player,
                                  dx, dy) IN
                    [twin EXCEPT !.boxes = t.boxes \cup
                                               (twin.boxes \cap twin.goals),
                                 !.player = t.player,
                                 !.response = t.result]
    /\ UNCHANGED <<level_data, walls, goals, size>>

\* self.model.move(dx, dy); `last' records the arguments, the board the call
\* started from and whether it repeats a call that was just refused;
\* `response' is what the call returned or raised
MoveCall(dx, dy) ==
    /\ calls < MaxMoves
    /\ calls' = calls + 1
    /\ last' = [dx |-> dx, dy |-> dy, boxes |-> boxes, player |-> player,
                again |-> /\ response \in {INVALID_WALL, INVALID_BOX}
                          /\ last.dx = dx
                          /\ last.dy = dy]
    /\ IF player = NoPlayer
       THEN /\ response' = AttributeError
            /\ UNCHANGED <<boxes, player>>
       ELSE LET r == move(walls, boxes, player, dx, dy) IN
            /\ response' = r.result
            /\ boxes' = r.boxes
            /\ player' = r.player
    /\ TwinMove(dx, dy)
    /\ UNCHANGED <<level_data, walls, goals, size>>

\* a move call made outside the game loop
Move(dx, dy) ==
    /\ MoveCall(dx, dy)
    /\ UNCHANGED <<answer, running, pending, success>>

Next == \E d \in UnitDirections : Move(d[1], d[2])

Spec == Init /\ [][Next]_vars

(***************************************************************************)
(* move called directly with any vector: the method does not look at the   *)
(* magnitude of (dx, dy).  The boards are those of the test and scenario   *)
(* levels.                                                                 *)
(***************************************************************************)
NonUnitVectors ==
    {<<0, 0>>, <<1, 1>>, <<-1, 1>>, <<2, 0>>, <<-2, 0>>, <<0, 2>>}

InitEnclosed ==
    /\ level_data \in TestLevels \cup ScenarioLevels
    /\ Init

NextVectors == \E d \in UnitDirections \cup NonUnitVectors : Move(d[1], d[2])

SpecVectors == InitEnclosed /\ [][NextVectors]_vars

(***************************************************************************)
(* The queries, called between moves on the boards of the test and         *)
(* scenario levels.  `answer' is the query made last and what it returned. *)
(***************************************************************************)
\* a wrong is_level_complete: the box set is used up while it is checked
QueryComplete_drains_boxes ==
    /\ answer' = [query |-> "is_level_complete", args |-> <<>>,
                  value |-> is_level_complete(boxes, goals)]
    /\ boxes' = {}
    /\ UNCHANGED <<level_data, walls, goals, player, size, response, last,
                   calls, twin, running, pending, success>>

\* self.model.is_level_complete()
QueryComplete ==
    /\ answer' = [query |-> "is_level_complete", args |-> <<>>,
                  value |-> is_level_complete(boxes, goals)]
    /\ UNCHANGED <<level_data, walls, boxes, goals, player, size, response,
                   last, calls, twin, running, pending, success>>

\* model.symbol(x, y)
QuerySymbol(x, y) ==
    /\ answer' = [query |-> "symbol", args |-> <<x, y>>,
                  value |-> symbol(walls, boxes, goals, player, x, y)]
    /\ UNCHANGED <<level_data, walls, boxes, goals, player, size, response,
                   last, calls, twin, running, pending, success>>

\* model.width()
QueryWidth ==
    /\ answer' = [query |-> "width", args |-> <<>>, value |-> width(size)]
    /\ UNCHANGED <<level_data, walls, boxes, goals, player, size, response,
                   last, calls, twin, running, pending, success>>

\* model.height()
QueryHeight ==
    /\ answer' = [query |-> "height", args |-> <<>>, value |-> height(size)]
    /\ UNCHANGED <<level_data, walls, boxes, goals, player, size, response,
                   last, calls, twin, running, pending, success>>

\* the view asks for the symbol of every coordinate of the board
NextQueries ==
    \/ \E d \in UnitDirections : Move(d[1], d[2])
    \/ QueryComplete
    \/ \E y \in 0..(height(size) - 1) : \E x \in 0..(width(size) - 1) :
           QuerySymbol(x, y)
    \/ QueryWidth
    \/ QueryHeight

SpecQueries == InitEnclosed /\ [][NextQueries]_vars

(***************************************************************************)
(* The game loop of the controller on the boards of the test and scenario  *)
(* levels.  pygame.event.get() returns a batch of events; the for loop     *)
(* handles every event of the batch, and the while condition is looked at  *)
(* only between batches.  The level file is not rewritten while the game   *)
(* runs.                                                                   *)
(***************************************************************************)
MaxBatch == 2

QUIT == "QUIT"

K_UP == "K_UP"

K_LEFT == "K_LEFT"

K_DOWN == "K_DOWN"

K_RIGHT == "K_RIGHT"

K_ESCAPE == "K_ESCAPE"

K_r == "K_r"

\* a key the loop has no branch for
K_SPACE == "K_SPACE"

MoveKeys == {K_UP, K_LEFT, K_DOWN, K_RIGHT}

Events == MoveKeys \cup {QUIT, K_ESCAPE, K_r, K_SPACE}

\* the vector the loop passes to move for a key
KeyVector(key) ==
    CASE key = K_UP -> <<0, -1>>
      [] key = K_LEFT -> <<-1, 0>>
      [] key = K_DOWN -> <<0, 1>>
      [] key = K_RIGHT -> <<1, 0>>

Batches == UNION {[1..n -> Events] : n \in 1..MaxBatch}

\* for event in pygame.event.get(), entered while running
GetEvents ==
    /\ running
    /\ pending = <<>>
    /\ pending' \in Batches
    /\ UNCHANGED <<level_data, walls, boxes, goals, player, size, response,
                   last, calls, twin, answer, running, success>>

\* event.type == pygame.QUIT
Quit ==
    /\ pending # <<>>
    /\ Head(pending) = QUIT
    /\ running' = FALSE
    /\ pending' = Tail(pending)
    /\ UNCHANGED <<level_data, walls, boxes, goals, player, size, response,
                   last, calls, twin, answer, success>>

\* a direction key: the move, and after a VALID move that completes the
\* level the success message and running = False; an exception raised by
\* move ends the loop
KeyMove ==
    /\ pending # <<>>
    /\ Head(pending) \in MoveKeys
    /\ MoveCall(KeyVector(Head(pending))[1], KeyVector(Head(pending))[2])
    /\ IF response' = AttributeError
       THEN /\ pending' = <<>>
            /\ running' = FALSE
            /\ UNCHANGED success
       ELSE /\ pending' = Tail(pending)
            /\ IF response' = VALID /\ is_level_complete(boxes', goals)
               THEN /\ success' = TRUE
                    /\ running' = FALSE
               ELSE UNCHANGED <<success, running>>
    /\ UNCHANGED answer

\* event.key == pygame.K_ESCAPE
KeyEscape ==
    /\ pending # <<>>
    /\ Head(pending) = K_ESCAPE
    /\ running' = FALSE
    /\ pending' = Tail(pending)
    /\ UNCHANGED <<level_data, walls, boxes, goals, player, size, response,
                   last, calls, twin, answer, success>>

\* a wrong restart: the boxes of the old model are kept
KeyRestart_keeps_boxes ==
    /\ pending # <<>>
    /\ Head(pending) = K_r
    /\ LET m == ParseLevel(level_data) IN
        /\ walls' = m.walls
        /\ goals' = m.goals
        /\ player' = m.player
    /\ size' = ParseSize(level_data)
    /\ response' = NoCall
    /\ last' = [dx |-> 0, dy |-> 0, boxes |-> boxes, player |-> player,
                again |-> FALSE]
    /\ twin' = TwinBoard(level_data)
    /\ pending' = Tail(pending)
    /\ UNCHANGED <<level_data, boxes, calls, answer, running, success>>

\* event.key == pygame.K_r: self.model = SokobanModel(list(f)) on the level
\* file.  The new model has had no move call; `last' keeps the boxes and
\* the player of the model that is replaced.
KeyRestart ==
    /\ pending # <<>>
    /\ Head(pending) = K_r
    /\ LET m == ParseLevel(level_data) IN
        /\ walls' = m.walls
        /\ boxes' = m.boxes
        /\ goals' = m.goals
        /\ player' = m.player
    /\ size' = ParseSize(level_data)
    /\ response' = NoCall
    /\ last' = [dx |-> 0, dy |-> 0, boxes |-> boxes, player |-> player,
                again |-> FALSE]
    /\ twin' = TwinBoard(level_data)
    /\ pending' = Tail(pending)
    /\ UNCHANGED <<level_data, calls, answer, running, success>>

\* any other key: move_response stays None
KeyOther ==
    /\ pending # <<>>
    /\ Head(pending) = K_SPACE
    /\ pending' = Tail(pending)
    /\ UNCHANGED <<level_data, walls, boxes, goals, player, size, response,
                   last, calls, twin, answer, running, success>>

NextLoop ==
    \/ GetEvents
    \/ Quit
    \/ KeyMove
    \/ KeyEscape
    \/ KeyRestart
    \/ KeyOther

SpecLoop == InitEnclosed /\ [][NextLoop]_vars

(***************************************************************************)
(* Properties.  `last' is the board and the direction of the latest move   *)
(* call, so a property of one call is a predicate of the state after it.   *)
(***************************************************************************)
\* a move call has returned on a board that has a player
Moved == calls > 0 /\ last.player # NoPlayer

\* where the player tried to go, and where a box there would go
Destination == <<last.player[1] + last.dx, last.player[2] + last.dy>>

Beyond == <<last.player[1] + 2 * last.dx, last.player[2] + 2 * last.dy>>

\* the latest call relocated a box
Pushed == Moved /\ boxes # last.boxes

\* C1: after parsing and after any sequence of unit moves, walls, boxes and
\* the player position are pairwise disjoint.
C1_Disjoint ==
    /\ walls \cap boxes = {}
    /\ player \notin walls
    /\ player \notin boxes

\* a box was pushed next to a wall and next to another box
C1_Witness ==
    /\ Pushed
    /\ walls # {}
    /\ Cardinality(boxes) > 1
    /\ response = VALID

\* C2: the number of boxes always equals the number of boxes parsed.
C2_BoxCount == Cardinality(boxes) = Cardinality(ParseLevel(level_data).boxes)

\* a second push on a board with several boxes
C2_Witness ==
    /\ Pushed
    /\ last.boxes # ParseLevel(level_data).boxes
    /\ Cardinality(boxes) >= 2

\* C3: a call that returns INVALID_WALL or INVALID_BOX leaves boxes and
\* player as they were, and the same call made again returns the same
\* outcome and leaves them unchanged again.
C3_BlockedIdempotent ==
    [][/\ response' \in {INVALID_WALL, INVALID_BOX}
            => boxes' = boxes /\ player' = player
       /\ last'.again
            => response' = response /\ boxes' = boxes /\ player' = player]_vars

\* a refused push made a second time
C3_Witness ==
    /\ last.again
    /\ response = INVALID_BOX
    /\ calls >= 2

\* C4: if the destination is neither a wall nor a box, move returns VALID,
\* the player is at the destination and the boxes are unchanged.
C4_ValidIntoEmpty ==
    (Moved /\ Destination \notin walls /\ Destination \notin last.boxes)
        => /\ response = VALID
           /\ player = Destination
           /\ boxes = last.boxes

\* a step onto a free goal, with boxes on the board
C4_Witness ==
    /\ Moved
    /\ Destination \notin walls
    /\ Destination \notin last.boxes
    /\ Destination \in goals
    /\ boxes # {}

\* C5: if the destination holds a box and the coordinate beyond it is
\* neither a wall nor a box, move returns VALID, that box goes from the
\* destination to the coordinate beyond, the other boxes stay and the
\* player is at the destination.
C5_ValidPush ==
    (Moved /\ Destination \in last.boxes
           /\ Beyond \notin walls /\ Beyond \notin last.boxes)
        => /\ response = VALID
           /\ Destination \notin boxes
           /\ Beyond \in boxes
           /\ boxes \ {Beyond} = last.boxes \ {Destination}
           /\ player = Destination

\* a push on a board with another box that stays
C5_Witness ==
    /\ Moved
    /\ Destination \in last.boxes
    /\ Beyond \notin walls
    /\ Beyond \notin last.boxes
    /\ Cardinality(last.boxes) >= 2

\* C6: on a board with a player, move returns INVALID_WALL exactly when the
\* destination is a wall, and it always returns one of the three responses.
C6_InvalidWall ==
    Moved => /\ response \in MoveResponse
             /\ response = INVALID_WALL <=> Destination \in walls

\* a move against a wall
C6_Witness == Moved /\ Destination \in walls /\ response = INVALID_WALL

\* C7: on a board with a player, move returns INVALID_BOX exactly when the
\* destination holds a box and the coordinate beyond it is a wall or a box.
C7_InvalidBox ==
    Moved => (response = INVALID_BOX
                <=> /\ Destination \in last.boxes
                    /\ Beyond \in walls \cup last.boxes)

\* a push against another box
C7_Witness ==
    /\ Moved
    /\ response = INVALID_BOX
    /\ Beyond \in last.boxes
    /\ Beyond \notin walls

C9_NoBoxesComplete == boxes = {} => is_level_complete(boxes, goals)

\* C10: every coordinate that is a goal and holds a box has the symbol
\* BOX_ON_GOAL.
C10_BoxOnGoal ==
    \A pos \in goals \cap boxes :
        symbol(walls, boxes, goals, player, pos[1], pos[2]) = BOX_ON_GOAL

\* a box was pushed onto a goal
C10_Witness ==
    /\ Pushed
    /\ (boxes \ last.boxes) \cap goals # {}

\* the coordinates at which the queries are tried: the board, a margin of
\* two around it, and wherever a box or the player has got to
Probes ==
    {<<x, y>> : x \in (0 - 2)..(width(size) + 1),
                y \in (0 - 2)..(height(size) + 1)}
        \cup boxes \cup (IF player = NoPlayer THEN {} ELSE {player})

\* the classification C11 gives for a coordinate
ReferenceSymbol(pos) ==
    IF pos \in goals
    THEN IF pos \in boxes THEN BOX_ON_GOAL
         ELSE IF pos = player THEN PLAYER_ON_GOAL
         ELSE GOAL
    ELSE IF pos \in boxes THEN BOX
    ELSE IF pos = player THEN PLAYER
    ELSE IF pos \in walls THEN WALL
    ELSE FLOOR

\* C11: for every coordinate and every board, symbol(x, y) is the reference
\* classification, hence one of the seven symbols, also outside the board.
C11_SymbolReference ==
    \A pos \in Probes :
        LET s == symbol(walls, boxes, goals, player, pos[1], pos[2]) IN
        s = ReferenceSymbol(pos) /\ s \in Symbol

\* C12: walls, goals and the dimensions are never changed by move: after
\* any sequence of moves they are what the parser produced.
C12_Immutable ==
    /\ walls = ParseLevel(level_data).walls
    /\ goals = ParseLevel(level_data).goals
    /\ size = ParseSize(level_data)
    /\ width(size) = width(ParseSize(level_data))
    /\ height(size) = height(ParseSize(level_data))

\* a box was pushed onto a goal beside a wall, after an earlier call
C12_Witness ==
    /\ Pushed
    /\ calls >= 2
    /\ walls # {}
    /\ (boxes \ last.boxes) \cap goals # {}

\* rows of equal length over the seven symbols, with one player symbol
WellFormed(data) ==
    /\ Len(data) > 0
    /\ \A j \in 1..Len(data) :
        /\ Len(data[j]) = Len(data[1])
        /\ \A i \in 1..Len(data[j]) : data[j][i] \in Symbol
    /\ Cardinality({c \in (1..Len(data[1])) \X (1..Len(data)) :
                        data[c[2]][c[1]] \in {PLAYER, PLAYER_ON_GOAL}}) = 1

\* the first and last row and the first and last column hold walls only
Enclosed(data) ==
    \A j \in 1..Len(data) : \A i \in 1..Len(data[j]) :
        (i \in {1, Len(data[j])} \/ j \in {1, Len(data)}) => data[j][i] = WALL

InBoard(pos) ==
    /\ pos[1] \in 0..(width(size) - 1)
    /\ pos[2] \in 0..(height(size) - 1)

\* C13 as stated: on a level parsed from well-formed input, every box and
\* the player are inside [0, width) x [0, height) after any moves.
C13_InBoard ==
    WellFormed(level_data) => \A pos \in boxes \cup {player} : InBoard(pos)

\* C13 amended: the same for well-formed levels whose border is all walls,
\* and for every well-formed level right after construction.
C13_InBoardEnclosed ==
    (WellFormed(level_data) /\ (Enclosed(level_data) \/ calls = 0))
        => \A pos \in boxes \cup {player} : InBoard(pos)

\* a second call pushed a box on an enclosed level
C13_Witness ==
    /\ WellFormed(level_data)
    /\ Enclosed(level_data)
    /\ Pushed
    /\ calls >= 2

\* C14: on the level with two boxes, move(1, 0) is VALID and leaves the
\* player at (3, 3); then move(0, -1) is VALID, the player is at (3, 2) and
\* no box moved; then move(-1, 0) is VALID, the box from (2, 2) is at (1, 2)
\* and the player at (2, 2).
C14_Scenario ==
    LET parsed == {<<2, 1>>, <<2, 2>>} IN
    level_data = level_two_boxes =>
        /\ calls = 0 =>
            /\ boxes = parsed
            /\ goals = {<<4, 1>>, <<4, 2>>}
            /\ player = <<2, 3>>
        /\ (calls = 1 /\ last.dx = 1 /\ last.dy = 0) =>
            /\ response = VALID
            /\ player = <<3, 3>>
            /\ boxes = parsed
        /\ (calls = 2 /\ last.player = <<3, 3>> /\ last.boxes = parsed
                      /\ last.dx = 0 /\ last.dy = 0 - 1) =>
            /\ response = VALID
            /\ player = <<3, 2>>
            /\ boxes = parsed
        /\ (calls = 3 /\ last.player = <<3, 2>> /\ last.boxes = parsed
                      /\ last.dx = 0 - 1 /\ last.dy = 0) =>
            /\ response = VALID
            /\ boxes = {<<2, 1>>, <<1, 2>>}
            /\ player = <<2, 2>>

\* the state after the third move of the scenario
C14_Witness ==
    /\ level_data = level_two_boxes
    /\ calls = 3
    /\ last.player = <<3, 2>>
    /\ last.boxes = {<<2, 1>>, <<2, 2>>}
    /\ last.dx = 0 - 1
    /\ last.dy = 0
    /\ <<1, 2>> \in boxes

\* C15: when exactly one box is off a goal and a move pushes it onto a goal,
\* the move is VALID and is_level_complete() goes from false to true; on
\* the level with one box this happens with move(1, 0).
C15_LastBoxHome ==
    /\ (Moved /\ last.boxes \ goals = {Destination}
              /\ Beyond \in goals /\ Beyond \notin walls \cup last.boxes)
        => /\ response = VALID
           /\ ~ is_level_complete(last.boxes, goals)
           /\ is_level_complete(boxes, goals)
    /\ level_data = level_one_push =>
        /\ calls = 0 => ~ is_level_complete(boxes, goals)
        /\ (calls = 1 /\ last.dx = 1 /\ last.dy = 0) =>
            /\ response = VALID
            /\ boxes = {<<3, 1>>}
            /\ is_level_complete(boxes, goals)

\* the last box off a goal was pushed home while another goal stays free
C15_Witness ==
    /\ Pushed
    /\ last.boxes \ goals = {Destination}
    /\ Beyond \in goals
    /\ goals \ boxes # {}
    /\ is_level_complete(boxes, goals)

C17_NoPlayerFails ==
    ParseLevel(level_data).player = NoPlayer =>
        /\ player = NoPlayer
        /\ boxes = ParseLevel(level_data).boxes
        /\ calls > 0 =>
            /\ response = AttributeError
            /\ response \notin MoveResponse
            /\ boxes = last.boxes

\* a move was tried on a player-less board that has a box
C17_Witness ==
    /\ ParseLevel(level_data).player = NoPlayer
    /\ calls > 0
    /\ boxes # {}
    /\ response = AttributeError

\* C18: a move call with a vector that is not a unit direction is refused
\* as a failure and changes neither the player position nor the boxes.
C18_NonUnitRefused ==
    (Moved /\ <<last.dx, last.dy>> \notin UnitDirections)
        => /\ response \notin MoveResponse
           /\ boxes = last.boxes
           /\ player = last.player

\* the characters the parser scans, as <<column, row>> counted from 1 in
\* the stripped rows, and the coordinate each one gets
ScannedCells ==
    UNION {{<<i, j>> : i \in 1..Len(strip(level_data[j]))} :
              j \in 1..Len(level_data)}

ScannedChar(c) == strip(level_data[c[2]])[c[1]]

CoordOf(c) == <<c[1] - 1, c[2] - 1>>

\* C19: right after parsing, a scanned coordinate is a wall exactly for
\* '#', a box exactly for '$' and '*', a goal exactly for '*', '+' and '.',
\* the player only for '@' or '+'; '-' and other characters add nothing,
\* and nothing is stored for a coordinate that was not scanned.
C19_SymbolTable ==
    calls = 0 =>
        /\ \A c \in ScannedCells :
            LET ch == ScannedChar(c)
                pos == CoordOf(c)
            IN  /\ pos \in walls <=> ch = "#"
                /\ pos \in boxes <=> ch \in {"$", "*"}
                /\ pos \in goals <=> ch \in {"*", "+", "."}
                /\ pos = player => ch \in {"@", "+"}
        /\ LET players == {c \in ScannedCells : ScannedChar(c) \in {"@", "+"}}
           IN  IF players = {} THEN player = NoPlayer
               ELSE player \in {CoordOf(c) : c \in players}
        /\ walls \cup boxes \cup goals \subseteq {CoordOf(c) : c \in ScannedCells}

\* a freshly parsed level with a box on a goal, a player on a goal and a
\* character outside the table
C19_Witness ==
    /\ calls = 0
    /\ \E c \in ScannedCells : ScannedChar(c) = "*"
    /\ \E c \in ScannedCells : ScannedChar(c) = "+"
    /\ \E c \in ScannedCells : ScannedChar(c) \notin Symbol

\* the characters of the input rows with only trailing whitespace removed
InputCells ==
    UNION {{<<i, j>> : i \in 1..Len(rstrip(level_data[j]))} :
              j \in 1..Len(level_data)}

InputChar(c) == level_data[c[2]][c[1]]

\* C20: right after parsing, every non-floor symbol at column c of input
\* row r (trailing whitespace apart) is stored at coordinate (c, r).
C20_ColumnsKept ==
    calls = 0 =>
        /\ \A c \in InputCells :
            LET ch == InputChar(c)
                pos == CoordOf(c)
            IN  /\ ch = "#" => pos \in walls
                /\ ch \in {"$", "*"} => pos \in boxes
                /\ ch \in {"*", "+", "."} => pos \in goals
        /\ LET players == {c \in InputCells : InputChar(c) \in {"@", "+"}}
           IN  players # {} => player \in {CoordOf(c) : c \in players}

\* the rows as list(f) yields them from a text file: each with its line
\* ending
LF == <<"\n">>

CRLF == <<"\r", "\n">>

WithLineEndings(data, ending) == [j \in 1..Len(data) |-> data[j] \o ending]

\* C21: parsing the rows with "\n" or "\r\n" appended to each gives the
\* same walls, boxes, goals, player, width and height as parsing the rows
\* themselves.
C21_LineEndings ==
    calls = 0 =>
        \A ending \in {LF, CRLF} :
            LET file == WithLineEndings(level_data, ending) IN
            /\ ParseLevel(file).walls = walls
            /\ ParseLevel(file).boxes = boxes
            /\ ParseLevel(file).goals = goals
            /\ ParseLevel(file).player = player
            /\ width(ParseSize(file)) = width(size)
            /\ height(ParseSize(file)) = height(size)

\* a freshly parsed level of several rows with walls, a box and a player
C21_Witness ==
    /\ calls = 0
    /\ Len(level_data) > 1
    /\ walls # {}
    /\ boxes # {}
    /\ player # NoPlayer
    /\ width(ParseSize(WithLineEndings(level_data, CRLF))) = width(size)

\* C22: parsing the empty sequence of rows succeeds with width 0, height 0
\* and empty wall, box and goal sets.
C22_EmptyLevel ==
    level_data = <<>> =>
        /\ width(size) = 0
        /\ height(size) = 0
        /\ walls = {}
        /\ boxes = {}
        /\ goals = {}

\* the board of the empty level
C22_Witness ==
    /\ level_data = <<>>
    /\ calls = 0
    /\ size = <<0, 0>>
    /\ player = NoPlayer

\* C27: on a freshly parsed rectangular level over the seven symbols with
\* one player symbol, symbol(x, y) is the character rows[y][x] for every
\* coordinate of the board.
C27_RoundTrip ==
    (calls = 0 /\ WellFormed(level_data)) =>
        \A y \in 0..(height(size) - 1) : \A x \in 0..(width(size) - 1) :
            symbol(walls, boxes, goals, player, x, y) = level_data[y + 1][x + 1]

\* a freshly parsed well-formed level of several rows with a box on a
\* goal, a free goal and walls
C27_Witness ==
    /\ calls = 0
    /\ WellFormed(level_data)
    /\ height(size) > 1
    /\ boxes \cap goals # {}
    /\ goals \ boxes # {}
    /\ walls # {}

C24_QueriesPure ==
    [][calls' = calls =>
          /\ UNCHANGED <<walls, boxes, goals, player, size>>
          /\ (is_level_complete(boxes, goals)
                  /\ answer'.query = "is_level_complete") =>
                 answer'.value = TRUE]_vars

\* is_level_complete was asked after a push completed the level, and
\* returned true
C24_Witness ==
    /\ Pushed
    /\ answer.query = "is_level_complete"
    /\ answer.value = TRUE
    /\ is_level_complete(boxes, goals)

\* C25: when the model has been replaced by a restart after some moves and
\* has had no move call since, its walls, boxes, goals, player and size are
\* those parsed from the level.
C25_RestartFresh ==
    (calls > 0 /\ response = NoCall) =>
        /\ walls = ParseLevel(level_data).walls
        /\ boxes = ParseLevel(level_data).boxes
        /\ goals = ParseLevel(level_data).goals
        /\ player = ParseLevel(level_data).player
        /\ size = ParseSize(level_data)

\* a restart replaced a model whose boxes and player had been moved
C25_Witness ==
    /\ calls > 0
    /\ response = NoCall
    /\ last.boxes # ParseLevel(level_data).boxes
    /\ last.player # ParseLevel(level_data).player
    /\ boxes = ParseLevel(level_data).boxes
    /\ player = ParseLevel(level_data).player

\* C26: once success has been shown, no step of the loop changes the boxes
\* or the player or makes a move call.
C26_FinalAtSuccess ==
    [][success => (boxes' = boxes /\ player' = player /\ calls' = calls)]_vars

====
